---- MODULE Spec2Model ----
(***************************************************************************)
(* The feishu receiver of wolftankk/alerting: configuration loading        *)
(* (NewConfig), the process-wide tenant access token cache                 *)
(* (getTenantAccessToken over feishuAccessTokenCache), image upload        *)
(* (uploadImage), payload construction (buildBody), Notify, the mention    *)
(* lookup (getUserIDs) and SendResolved.                                   *)
(*                                                                         *)
(* Go strings are TLA+ strings: "" is the empty string, Len is len().      *)
(* The repository holds several revisions of the receiver; `variant`,     *)
(* `cfgBy` and `revision` select the revision an operation is taken from.  *)
(***************************************************************************)
EXTENDS Integers, Sequences, FiniteSets, TLC

\* ---------------------------------------------------------------- bounds
\* the clock runs over 0..MaxTime (seconds)
MaxTime == 3
\* at most MaxAuth requests reach the auth endpoint in one behaviour
MaxAuth == 3
\* the auth endpoint answers with expire in 1..MaxExpire (seconds)
MaxExpire == 2
\* the alerts of one Notify call carry 0..MaxImages stored images
MaxImages == 2
\* getUserIDs is handed lists of 0..MaxEmails identifiers
MaxEmails == 3

\* ------------------------------------------------------------- notifiers
\* Two Notifier values living in one process, each with its own credentials
\* (Notifier.settings.AppID); they share the package-level cache.
Callers == {"n1", "n2"}

AppIDOf(c) == IF c = "n1" THEN "appA" ELSE "appB"

VARIABLES
  \* --- process-wide state
  now,          \* the wall clock gcache reads (seconds)
  cache,        \* feishuAccessTokenCache: <<>> or <<item>>, item = [value, expiration]
  authSeq,      \* requests the auth endpoint has received so far
  \* --- one getTenantAccessToken call per caller
  pc,           \* position of each caller inside getTenantAccessToken
  tenantInfo,   \* the caller's parsed feishuTenant (after json.Unmarshal)
  ret,          \* the caller's return value [token, err]
  authCalls,    \* observation: auth requests issued by the caller's current call
  issued,       \* observation: tokens the auth endpoint handed out with code 0
  lastSet,      \* observation: value written by the latest SetWithExpire ("" if none)
  \* --- one NewConfig call
  jsonData,     \* the raw settings handed to NewConfig
  decryptFn,    \* the receivers.DecryptFunc handed to NewConfig: decryptFn[key][fallback]
  cfgBy,        \* which NewConfig ran: "" (none yet), "decrypt" or "plain"
  cfgRet,       \* what NewConfig returned: [settings, err]
  \* --- one Notifier and its Notify call
  variant,      \* the revision of the receiver: "post", "card" or "sdk"
  settings,     \* Notifier.settings
  externalURL,  \* fs.tmpl.ExternalURL.String()
  npc,          \* position inside Notify: idle, images, build, send, done, panic
  alertStatus,  \* types.Alerts(alerts...).Status()
  images,       \* paths of the stored images of the alerts, in iteration order
  idx,          \* the image WithStoredImages hands to the callback next
  imageContents,\* image keys appended so far
  message,      \* tmpl(fs.settings.Message)
  title,        \* tmpl(fs.settings.Title)
  body,         \* what buildBody returned: [doc, err]
  result,       \* what Notify returned: [ok, err]
  sends,        \* observation: what each SendWebhook call of this Notify call returned
  uploads,      \* observation: per image, the platform's answer and uploadImage's return
  failures,     \* observation: the non-fatal failures of this Notify call
  \* --- one Notifier's SendResolved and getUserIDs
  revision,     \* the source revision the Notifier is built from
  disableResolveMessage, \* receivers.Base: what GetDisableResolveMessage() returns
  lookupEmails, \* the identifier list handed to getUserIDs
  userResp,     \* observation: <<>> or <<the answer of BatchGetId>>
  userRet,      \* <<>> (not called) or <<what getUserIDs returned>>
  resolvedRet   \* <<>> (not called) or <<what SendResolved returned>>

tokenVars == <<now, cache, authSeq, pc, tenantInfo, ret, authCalls, issued, lastSet>>

cfgVars == <<jsonData, decryptFn, cfgBy, cfgRet>>

notifyVars ==
  <<variant, settings, externalURL, npc, alertStatus, images, idx, imageContents,
    message, title, body, result, sends, uploads, failures>>

helperVars ==
  <<revision, disableResolveMessage, lookupEmails, userResp, userRet, resolvedRet>>

vars == <<tokenVars, cfgVars, notifyVars, helperVars>>

\* ------------------------------------------------------------ the cache
\* gcache simpleItem.IsExpired: expiration.Before(now)
IsExpired_Inclusive(item, t) == item.expiration <= t

IsExpired(item, t) == item.expiration < t

\* gcache SimpleCache.Get as used at "feishuAccessTokenCache.Get("tentant")":
\* a live item is returned, an expired one is removed and reported missing.
CacheGet(cch, t) ==
  IF cch # <<>> /\ ~IsExpired(cch[1], t)
  THEN [err |-> FALSE, value |-> cch[1].value, cache |-> cch]
  ELSE [err |-> TRUE, value |-> "", cache |-> <<>>]

\* gcache SimpleCache.SetWithExpire("tentant", v, d*time.Second): the single
\* slot (gcache.New(1)) is overwritten, expiration = clock.Now().Add(d).
CacheSetWithExpire(cch, v, d, t) == <<[value |-> v, expiration |-> t + d]>>

\* ------------------------------------------------------ the auth endpoint
NoTenant == [AccessToken |-> "", Expire |-> 0]

\* What http.Post + io.ReadAll + json.Unmarshal can produce for request n of app:
\*   posterr / readerr / badjson : the three error returns of the call chain
\*   json with a token           : {"code":0,"tenant_access_token":..,"expire":e}
\*   json without a token        : an error body such as {"code":10003,"msg":".."},
\*                                 which unmarshals without error into the zero
\*                                 AccessToken and Expire (Code is never read)
AuthOutcomes(app, n) ==
  {[kind |-> k, AccessToken |-> "", Expire |-> 0] : k \in {"posterr", "readerr", "badjson"}}
  \cup {[kind |-> "json", AccessToken |-> "tok-" \o app \o "-" \o ToString(n), Expire |-> e] :
          e \in 1..MaxExpire}
  \cup {[kind |-> "json", AccessToken |-> "", Expire |-> 0]}

\* the tokens the auth endpoint hands out for the credentials of app
IssuedTo(app) == {"tok-" \o app \o "-" \o ToString(n) : n \in 1..MaxAuth}

\* ------------------------------------------- getTenantAccessToken, by step
\* a cache lookup keyed by the caller's app ID: a token of other credentials
\* is a miss
TokenGet_PerApp(c) ==
  /\ pc[c] = "idle"
  /\ LET g == CacheGet(cache, now)
         hit == ~g.err /\ g.value \in IssuedTo(AppIDOf(c)) \cup {""}
     IN
       /\ cache' = g.cache
       /\ IF hit
          THEN /\ pc' = [pc EXCEPT ![c] = "done"]
               /\ ret' = [ret EXCEPT ![c] = [token |-> g.value, err |-> FALSE]]
          ELSE /\ pc' = [pc EXCEPT ![c] = "post"]
               /\ UNCHANGED ret
  /\ authCalls' = [authCalls EXCEPT ![c] = 0]
  /\ UNCHANGED <<now, authSeq, tenantInfo, issued, lastSet>>
  /\ UNCHANGED <<cfgVars, notifyVars, helperVars>>

\* k, err := feishuAccessTokenCache.Get("tentant"); if err == nil { return k, nil }
TokenGet(c) ==
  /\ pc[c] = "idle"
  /\ LET g == CacheGet(cache, now) IN
       /\ cache' = g.cache
       /\ IF ~g.err
          THEN /\ pc' = [pc EXCEPT ![c] = "done"]
               /\ ret' = [ret EXCEPT ![c] = [token |-> g.value, err |-> FALSE]]
          ELSE /\ pc' = [pc EXCEPT ![c] = "post"]
               /\ UNCHANGED ret
  /\ authCalls' = [authCalls EXCEPT ![c] = 0]
  /\ UNCHANGED <<now, authSeq, tenantInfo, issued, lastSet>>
  /\ UNCHANGED <<cfgVars, notifyVars, helperVars>>

\* http.Post(.../auth/v3/tenant_access_token/internal/), io.ReadAll, json.Unmarshal
TokenPost(c) ==
  /\ pc[c] = "post"
  /\ authSeq < MaxAuth
  /\ authSeq' = authSeq + 1
  /\ authCalls' = [authCalls EXCEPT ![c] = @ + 1]
  /\ \E out \in AuthOutcomes(AppIDOf(c), authSeq + 1) :
       IF out.kind # "json"
       THEN /\ pc' = [pc EXCEPT ![c] = "done"]
            /\ ret' = [ret EXCEPT ![c] = [token |-> "", err |-> TRUE]]
            /\ UNCHANGED <<tenantInfo, issued>>
       ELSE /\ pc' = [pc EXCEPT ![c] = "set"]
            /\ tenantInfo' = [tenantInfo EXCEPT ![c] =
                                [AccessToken |-> out.AccessToken, Expire |-> out.Expire]]
            /\ issued' = IF out.AccessToken # "" THEN issued \cup {out.AccessToken} ELSE issued
            /\ UNCHANGED ret
  /\ UNCHANGED <<now, cache, lastSet>>
  /\ UNCHANGED <<cfgVars, notifyVars, helperVars>>

\* feishuAccessTokenCache.SetWithExpire(...); return tenantInfo.AccessToken, nil
TokenSet(c) ==
  /\ pc[c] = "set"
  /\ cache' = CacheSetWithExpire(cache, tenantInfo[c].AccessToken, tenantInfo[c].Expire, now)
  /\ lastSet' = tenantInfo[c].AccessToken
  /\ pc' = [pc EXCEPT ![c] = "done"]
  /\ ret' = [ret EXCEPT ![c] = [token |-> tenantInfo[c].AccessToken, err |-> FALSE]]
  /\ UNCHANGED <<now, authSeq, tenantInfo, authCalls, issued>>
  /\ UNCHANGED <<cfgVars, notifyVars, helperVars>>

\* the caller has returned; the same notifier may call again
TokenReturn(c) ==
  /\ pc[c] = "done"
  /\ pc' = [pc EXCEPT ![c] = "idle"]
  /\ ret' = [ret EXCEPT ![c] = [token |-> "", err |-> FALSE]]
  /\ tenantInfo' = [tenantInfo EXCEPT ![c] = NoTenant]
  /\ authCalls' = [authCalls EXCEPT ![c] = 0]
  /\ UNCHANGED <<now, cache, authSeq, issued, lastSet>>
  /\ UNCHANGED <<cfgVars, notifyVars, helperVars>>

\* time passes
Tick ==
  /\ now < MaxTime
  /\ now' = now + 1
  /\ UNCHANGED <<cache, authSeq, pc, tenantInfo, ret, authCalls, issued, lastSet>>
  /\ UNCHANGED <<cfgVars, notifyVars, helperVars>>

\* ------------------------------------------------------------ NewConfig
\* templates.DefaultMessageTitleEmbed
DefaultMessageTitleEmbed == "{{ template \"default.title\" . }}"

\* templates.DefaultMessageEmbed
DefaultMessageEmbed == "{{ template \"default.message\" . }}"

defaultFeishuMsgType == "post"

\* the JSON keys of Config's string fields (struct tags)
ConfigKeys == {"url", "appId", "appSecret", "msgType", "title", "message"}

\* a non-empty value a settings document may carry under each key
SampleValue(k) ==
  CASE k = "url" -> "https://hook"
    [] k = "appId" -> "id"
    [] k = "appSecret" -> "secret"
    [] k = "msgType" -> "interactive"
    [] k = "title" -> "T"
    [] k = "message" -> "M"

\* Config{}
ZeroConfig ==
  [URL |-> "", AppID |-> "", AppSecret |-> "", MessageType |-> "",
   Title |-> "", Message |-> "", MentionUsers |-> <<>>]

\* json.Unmarshal(jsonData, &settings): a key that is absent leaves the
\* field at its zero value; a document that is not JSON is an error.
Field(doc, k) == IF k \in DOMAIN doc THEN doc[k] ELSE ""

Unmarshal(data) ==
  IF ~data.valid
  THEN [err |-> "unmarshal", settings |-> ZeroConfig]
  ELSE [err |-> "nil",
        settings |-> [URL |-> Field(data.doc, "url"),
                      AppID |-> Field(data.doc, "appId"),
                      AppSecret |-> Field(data.doc, "appSecret"),
                      MessageType |-> Field(data.doc, "msgType"),
                      Title |-> Field(data.doc, "title"),
                      Message |-> Field(data.doc, "message"),
                      MentionUsers |-> data.mentionUsers]]

\* the three defaulting ifs that close NewConfig (with a decrypt function)
ApplyDefaults(parsed) ==
  [parsed EXCEPT
     !.Title = IF @ = "" THEN DefaultMessageTitleEmbed ELSE @,
     !.Message = IF @ = "" THEN DefaultMessageEmbed ELSE @,
     !.MessageType = IF @ = "" THEN defaultFeishuMsgType ELSE @]

\* the two defaulting ifs that close NewConfig (without a decrypt function)
ApplyDefaultsPlain(parsed) ==
  [parsed EXCEPT
     !.Title = IF @ = "" THEN DefaultMessageTitleEmbed ELSE @,
     !.Message = IF @ = "" THEN DefaultMessageEmbed ELSE @]

\* a validation that forgets the app secret
NewConfig_NoSecretCheck(data, decrypt) ==
  LET u == Unmarshal(data)
      parsed == u.settings
      url == parsed.URL
      appID == decrypt["appId"][parsed.AppID]
  IN  IF u.err # "nil" THEN [settings |-> ZeroConfig, err |-> "unmarshal"]
      ELSE IF url = "" \/ appID = ""
      THEN [settings |-> ZeroConfig, err |-> "missing"]
      ELSE [settings |-> ApplyDefaults(parsed), err |-> "nil"]

\* NewConfig(jsonData, decryptFn): the validation reads the decrypted
\* credentials, the returned settings keep the fields as unmarshalled.
NewConfig(data, decrypt) ==
  LET u == Unmarshal(data)
      parsed == u.settings
      url == parsed.URL
      appID == decrypt["appId"][parsed.AppID]
      appSecret == decrypt["appSecret"][parsed.AppSecret]
  IN  IF u.err # "nil" THEN [settings |-> ZeroConfig, err |-> "unmarshal"]
      ELSE IF url = "" \/ appID = "" \/ appSecret = ""
      THEN [settings |-> ZeroConfig, err |-> "missing"]
      ELSE [settings |-> ApplyDefaults(parsed), err |-> "nil"]

\* NewConfig(jsonData) of the revision without a decrypt function
NewConfigPlain(data) ==
  LET u == Unmarshal(data)
      parsed == u.settings
      url == parsed.URL
      appId == parsed.AppID
      appSecret == parsed.AppSecret
  IN  IF u.err # "nil" THEN [settings |-> ZeroConfig, err |-> "unmarshal"]
      ELSE IF url = "" \/ appId = "" \/ appSecret = ""
      THEN [settings |-> ZeroConfig, err |-> "missing"]
      ELSE [settings |-> ApplyDefaultsPlain(parsed), err |-> "nil"]

\* the settings documents: any subset of the keys, each empty or not, with
\* or without a mention list; or bytes that are not JSON
DocsOver(ks) ==
  {[k \in ks |-> IF k \in ne THEN SampleValue(k) ELSE ""] : ne \in SUBSET ks}

JSONInputs ==
  {[valid |-> FALSE, doc |-> <<>>, mentionUsers |-> <<>>]}
  \cup {[valid |-> TRUE, doc |-> d, mentionUsers |-> m] :
          d \in UNION {DocsOver(ks) : ks \in SUBSET ConfigKeys},
          m \in {<<>>, <<"all">>}}

\* the decrypt functions: for each credential key any mapping of the
\* plaintext ("" or the sample) to "", the plaintext sample, or a secret of
\* the secure store
DecryptOf(k) == [{"", SampleValue(k)} -> {"", SampleValue(k), "dec-" \o k}]

DecryptFns ==
  {[k \in {"appId", "appSecret"} |-> IF k = "appId" THEN fa ELSE fs] :
     fa \in DecryptOf("appId"), fs \in DecryptOf("appSecret")}

NoDecrypt == [k \in {"appId", "appSecret"} |-> [v \in {""} |-> v]]

\* the caller runs NewConfig with a decrypt function
CallNewConfig ==
  /\ cfgBy = ""
  /\ cfgBy' = "decrypt"
  /\ cfgRet' = NewConfig(jsonData, decryptFn)
  /\ UNCHANGED <<jsonData, decryptFn>>
  /\ UNCHANGED <<tokenVars, notifyVars, helperVars>>

\* the caller runs the NewConfig that takes no decrypt function
CallNewConfigPlain ==
  /\ cfgBy = ""
  /\ cfgBy' = "plain"
  /\ cfgRet' = NewConfigPlain(jsonData)
  /\ UNCHANGED <<jsonData, decryptFn>>
  /\ UNCHANGED <<tokenVars, notifyVars, helperVars>>

ConfigIdle ==
  /\ jsonData = [valid |-> FALSE, doc |-> <<>>, mentionUsers |-> <<>>]
  /\ decryptFn = NoDecrypt
  /\ cfgBy = ""
  /\ cfgRet = [settings |-> ZeroConfig, err |-> "nil"]

ConfigInit ==
  /\ jsonData \in JSONInputs
  /\ decryptFn \in DecryptFns
  /\ cfgBy = ""
  /\ cfgRet = [settings |-> ZeroConfig, err |-> "nil"]


\* ------------------------------------------------ the Notify pipeline
\* "post": src/receivers/feishu/feishu.go (and the first revision in part_001)
\* "card": the second revision in part_001 (card payload, raw HTTP upload)
\* "sdk" : part_002 (card payload, lark SDK upload and user lookup)
Variants == {"post", "card", "sdk"}

\* a Go pointer: nil, or the address of a value
NilPtr == <<>>

Ptr(v) == <<v>>

\* a JSON value whose Go type is only known at run time ([]interface{} items)
Obj(r) == [obj |-> r]

Arr(sq) == [arr |-> sq]

Contains(sq, x) == \E i \in 1..Len(sq) : sq[i] = x

\* getTenantAccessToken run to its return against cache cch at time t, the
\* auth endpoint answering with `out` if it is asked
getTenantAccessToken(cch, t, out) ==
  LET g == CacheGet(cch, t) IN
    IF ~g.err
    THEN [token |-> g.value, err |-> FALSE, cache |-> g.cache, requests |-> 0]
    ELSE IF out.kind # "json"
    THEN [token |-> "", err |-> TRUE, cache |-> g.cache, requests |-> 1]
    ELSE [token |-> out.AccessToken, err |-> FALSE, requests |-> 1,
          cache |-> CacheSetWithExpire(g.cache, out.AccessToken, out.Expire, t)]

\* What os.Open and the image endpoint can do for one upload:
\*   openerr            : the file cannot be opened
\*   posterr            : the request fails in transport (or the body cannot be read)
\*   answer, garbage    : a body that is not JSON (a gateway's 502 page)
\*   answer, errorjson  : {"code":99991663,"msg":".."} - no data.image_key
\*   answer, imagejson  : 200 {"code":0,"data":{"image_key":..}}; the endpoint
\*                        only stores an image for a non-empty bearer token
UploadOutcomes(path, token) ==
  {[kind |-> k, status |-> 0, body |-> "", ImageKey |-> ""] : k \in {"openerr", "posterr"}}
  \cup {[kind |-> "answer", status |-> st, body |-> b, ImageKey |-> ""] :
          st \in {200, 500}, b \in {"garbage", "errorjson"}}
  \cup (IF token # ""
        THEN {[kind |-> "answer", status |-> 200, body |-> "imagejson",
               ImageKey |-> "key-" \o path]}
        ELSE {})

UploadFailed == [key |-> "", err |-> TRUE]

\* uploadImage over raw HTTP ("post" and "card"): every err != nil returns,
\* then imageInfo.Data.ImageKey is returned as it was unmarshalled
uploadImageRaw(tok, out) ==
  IF tok.err THEN UploadFailed
  ELSE IF out.kind = "openerr" THEN UploadFailed
  ELSE IF out.kind = "posterr" THEN UploadFailed
  ELSE IF out.body = "garbage" THEN UploadFailed
  ELSE [key |-> out.ImageKey, err |-> FALSE]

\* uploadImage over the SDK ("sdk"): err != nil (transport, unparsable body),
\* then !resp.Success() (code # 0), then *resp.Data.ImageKey
uploadImageSDK(out) ==
  IF out.kind = "openerr" THEN UploadFailed
  ELSE IF out.kind = "posterr" \/ out.body = "garbage" THEN UploadFailed
  ELSE IF out.body # "imagejson" THEN UploadFailed
  ELSE [key |-> out.ImageKey, err |-> FALSE]

\* what the platform did with the image: "none" (no request reached it),
\* "rejected" (non-2xx status or no image key in the body) or "accepted"
PlatformAnswer(reached, out) ==
  IF ~reached \/ out.kind # "answer" THEN "none"
  ELSE IF out.body = "imagejson" THEN "accepted"
  ELSE "rejected"

\* ------------------------------------------------------------ templates
\* One call of the closure templates.TmplText returns. The engine's output
\* for a template is the environment's: complete, cut short by an error, or
\* nothing and an error.
RenderOutcomes == {"ok", "partial", "fail"}

RenderText(tpl, o) ==
  CASE o = "ok" -> "<" \o tpl \o ">"
    [] o = "partial" -> "<"
    [] OTHER -> ""

RenderErr(o) == o \in {"partial", "fail"}

\* receivers.JoinURLPath(base, "/alerting/list", log): the path is joined
\* onto the parsed base URL
JoinURLPath(base, additionalPath) == base \o additionalPath

\* ------------------------------------------------------------ getUserIDs
\* resp.Data.UserList of BatchGetId for `emails`: entries for any of the
\* emails, in any order, each with its user_id or without one (unresolved)
UserLists(emails) ==
  LET n == Len(emails)
      orders == {sq \in UNION {[1..k -> 1..n] : k \in 0..n} :
                   \A i, j \in DOMAIN sq : i # j => sq[i] # sq[j]}
  IN  {[i \in DOMAIN sq |->
          [Email |-> Ptr(emails[sq[i]]),
           UserId |-> IF sq[i] \in R THEN Ptr("ou_" \o emails[sq[i]]) ELSE NilPtr]] :
         sq \in orders, R \in SUBSET (1..n)}

LookupOutcomes(emails) ==
  {[kind |-> k, UserList |-> <<>>] : k \in {"err", "notsuccess"}}
  \cup {[kind |-> "ok", UserList |-> ul] : ul \in UserLists(emails)}

\* a getUserIDs that looks for "all" only in the first entry
getUserIDs_FirstOnly(emails, out) ==
  IF Len(emails) > 0 /\ emails[1] = "all"
  THEN [userIds |-> <<"all">>, err |-> FALSE, panic |-> FALSE, lookups |-> 0]
  ELSE IF out.kind \in {"err", "notsuccess"}
  THEN [userIds |-> <<>>, err |-> TRUE, panic |-> FALSE, lookups |-> 1]
  ELSE IF \E i \in DOMAIN out.UserList : out.UserList[i].UserId = NilPtr
  THEN [userIds |-> <<>>, err |-> FALSE, panic |-> TRUE, lookups |-> 1]
  ELSE [userIds |-> [i \in DOMAIN out.UserList |-> out.UserList[i].UserId[1]],
        err |-> FALSE, panic |-> FALSE, lookups |-> 1]

\* getUserIDs(emails): "all" short-circuits; otherwise one BatchGetId, and
\* every *c.UserId of the answer is dereferenced (a nil one panics)
getUserIDs(emails, out) ==
  IF Contains(emails, "all")
  THEN [userIds |-> <<"all">>, err |-> FALSE, panic |-> FALSE, lookups |-> 0]
  ELSE IF out.kind \in {"err", "notsuccess"}
  THEN [userIds |-> <<>>, err |-> TRUE, panic |-> FALSE, lookups |-> 1]
  ELSE IF \E i \in DOMAIN out.UserList : out.UserList[i].UserId = NilPtr
  THEN [userIds |-> <<>>, err |-> FALSE, panic |-> TRUE, lookups |-> 1]
  ELSE [userIds |-> [i \in DOMAIN out.UserList |-> out.UserList[i].UserId[1]],
        err |-> FALSE, panic |-> FALSE, lookups |-> 1]

\* -------------------------------------------------------------- buildBody
\* the rows of the post document
PostContents(msg, keys, ruleURL) ==
  (IF Len(msg) > 0 THEN <<<<[tag |-> "text", text |-> msg, un_escape |-> FALSE]>>>> ELSE <<>>)
  \o (IF Len(keys) > 0
      THEN <<[i \in DOMAIN keys |-> [tag |-> "img", image_key |-> keys[i]]]>>
      ELSE <<>>)
  \o (IF Len(ruleURL) > 0
      THEN <<<<[tag |-> "a", text |-> "Alerting list", href |-> ruleURL]>>>>
      ELSE <<>>)

PostDoc(ttl, msg, keys, ruleURL) ==
  [msg_type |-> "post",
   content |-> [post |-> [zh_cn |-> [title |-> ttl,
                                     content |-> PostContents(msg, keys, ruleURL)]]]]

\* the card header: colour and icon follow the status of the alerts
CardHeader(ttl, status) ==
  [title |-> [tag |-> "plain_text", content |-> ttl],
   template |-> IF status = "firing" THEN "red"
                ELSE IF status = "resolved" THEN "green" ELSE "default",
   ud_icon |-> IF status = "firing" THEN Ptr([token |-> "warning_outlined"])
               ELSE IF status = "resolved" THEN Ptr([token |-> "resolve_outlined"])
               ELSE NilPtr]

\* contents before the mention step: markdown text, then the image combination
CardContents(msg, keys) ==
  (IF Len(msg) > 0 THEN <<Obj([tag |-> "markdown", content |-> msg])>> ELSE <<>>)
  \o (IF Len(keys) > 0
      THEN <<Obj([tag |-> "img_combination", combination_mode |-> "bisect",
                  img_list |-> [i \in DOMAIN keys |-> [img_key |-> keys[i]]]])>>
      ELSE <<>>)

\* appendSpace(): a divider, if there is content to divide from
AppendSpace(contents) ==
  IF Len(contents) > 0 THEN Append(contents, Obj([tag |-> "hr"])) ELSE contents

\* "card": every mention is rendered through the template closure and written
\* as <at id=..></at>; from the first rendering error on the closure returns ""
RECURSIVE AtMarkdown(_, _, _)
AtMarkdown(users, i, failAt) ==
  IF i > Len(users) THEN ""
  ELSE "<at id=" \o (IF failAt # 0 /\ i >= failAt THEN "" ELSE users[i]) \o "></at>"
       \o AtMarkdown(users, i + 1, failAt)

CardMentions(contents, users, failAt) ==
  IF Len(users) > 0
  THEN Append(AppendSpace(contents),
              Obj([tag |-> "markdown", content |-> AtMarkdown(users, 1, failAt)]))
  ELSE contents

\* "sdk": the divider is appended before getUserIDs runs; its user IDs become
\* one nested list of at-elements, an error leaves the contents as they are
SDKMentions(contents, users, ids) ==
  IF Len(users) > 0
  THEN IF ids.err THEN AppendSpace(contents)
       ELSE Append(AppendSpace(contents),
                   Arr([i \in DOMAIN ids.userIds |->
                          [tag |-> "at", user_id |-> ids.userIds[i]]]))
  ELSE contents

CardDoc(msgType, ttl, status, link, elements) ==
  [msg_type |-> msgType,
   card |-> [header |-> CardHeader(ttl, status), card_link |-> link, elements |-> elements]]

NoBody == [doc |-> <<>>, err |-> "nil"]

NoResult == [ok |-> FALSE, err |-> "nil"]

\* --------------------------------------------------------- Notify, by step
\* the mention lists a Notifier may be configured with ("post" has none;
\* "card" writes every entry the same way, "sdk" looks the entries up)
MentionLists(v) ==
  CASE v = "post" -> {<<>>}
    [] v = "card" -> {<<>>, <<"a@x", "all">>}
    [] v = "sdk" -> {<<>>, <<"a@x">>, <<"a@x", "b@x">>, <<"a@x", "all">>}

\* the Config a Notifier of revision v is built with (New)
NotifierSettings(v) ==
  {[URL |-> "https://hook", AppID |-> "appA", AppSecret |-> "secret",
    MessageType |-> IF v = "post" THEN "post" ELSE "interactive",
    Title |-> "T", Message |-> "M", MentionUsers |-> mu] :
     mu \in MentionLists(v)}

\* the status of the alerts; only the card header reads it
AlertStatuses(v) == IF v = "post" THEN {"firing"} ELSE {"firing", "resolved"}

\* the external URLs of the deployment; the "sdk" revision does not read it
ExternalURLs(v) == IF v = "sdk" THEN {"http://grafana"} ELSE {"", "http://grafana"}

\* Notify is entered: the alerts, their stored images, the two template calls
NotifyBegin ==
  /\ npc = "idle"
  /\ \E k \in 0..MaxImages, st \in AlertStatuses(variant),
        rm \in RenderOutcomes, rt \in {"ok", "fail"} :
       /\ images' = [i \in 1..k |-> "img" \o ToString(i)]
       /\ alertStatus' = st
       /\ message' = RenderText(settings.Message, rm)
       /\ title' = IF RenderErr(rm) THEN "" ELSE RenderText(settings.Title, rt)
       /\ failures' = IF RenderErr(rm) \/ RenderErr(rt) THEN {"template"} ELSE {}
  /\ npc' = "images"
  /\ idx' = 1
  /\ imageContents' = <<>>
  /\ uploads' = <<>>
  /\ sends' = <<>>
  /\ body' = NoBody
  /\ result' = NoResult
  /\ UNCHANGED <<variant, settings, externalURL>>
  /\ UNCHANGED <<tokenVars, cfgVars, helperVars>>

\* the WithStoredImages callback for image idx, uploadImage over raw HTTP
NotifyUploadRaw ==
  /\ variant \in {"post", "card"}
  /\ npc = "images"
  /\ idx <= Len(images)
  /\ \E ao \in AuthOutcomes(settings.AppID, authSeq + 1) :
       LET tok == getTenantAccessToken(cache, now, ao) IN
         /\ authSeq + tok.requests <= MaxAuth
         /\ cache' = tok.cache
         /\ authSeq' = authSeq + tok.requests
         /\ \E out \in UploadOutcomes(images[idx], tok.token) :
              LET r == uploadImageRaw(tok, out)
                  answer == PlatformAnswer(~tok.err, out)
              IN  /\ imageContents' = IF r.err THEN imageContents
                                      ELSE Append(imageContents, r.key)
                  /\ uploads' = Append(uploads, [path |-> images[idx], answer |-> answer,
                                                 key |-> r.key, err |-> r.err])
                  /\ failures' = failures
                                   \cup (IF tok.err THEN {"token"} ELSE {})
                                   \cup (IF answer # "accepted" THEN {"upload"} ELSE {})
  /\ idx' = idx + 1
  /\ UNCHANGED <<variant, settings, externalURL, npc, alertStatus, images, message, title,
                 body, result, sends>>
  /\ UNCHANGED <<now, pc, tenantInfo, ret, authCalls, issued, lastSet>>
  /\ UNCHANGED <<cfgVars, helperVars>>

\* the WithStoredImages callback for image idx, uploadImage over the SDK
NotifyUploadSDK ==
  /\ variant = "sdk"
  /\ npc = "images"
  /\ idx <= Len(images)
  /\ \E out \in UploadOutcomes(images[idx], "sdk-session") :
       LET r == uploadImageSDK(out)
           answer == PlatformAnswer(TRUE, out)
       IN  /\ imageContents' = IF r.err THEN imageContents ELSE Append(imageContents, r.key)
           /\ uploads' = Append(uploads, [path |-> images[idx], answer |-> answer,
                                          key |-> r.key, err |-> r.err])
           /\ failures' = failures \cup (IF answer # "accepted" THEN {"upload"} ELSE {})
  /\ idx' = idx + 1
  /\ UNCHANGED <<variant, settings, externalURL, npc, alertStatus, images, message, title,
                 body, result, sends>>
  /\ UNCHANGED <<tokenVars, cfgVars, helperVars>>

\* time passes between two uploads, long enough for the cached token to expire
NotifyTick ==
  /\ npc = "images"
  /\ cache # <<>>
  /\ now <= cache[1].expiration
  /\ cache[1].expiration < MaxTime
  /\ now' = cache[1].expiration + 1
  /\ UNCHANGED <<cache, authSeq, pc, tenantInfo, ret, authCalls, issued, lastSet>>
  /\ UNCHANGED <<cfgVars, notifyVars, helperVars>>

\* a Notify that logs the error of buildBody and goes on
Marshalled_IgnoreErr(doc, mo) ==
  /\ body' = IF mo = "ok" THEN [doc |-> doc, err |-> "nil"] ELSE [doc |-> <<>>, err |-> "marshal"]
  /\ npc' = "send"
  /\ result' = result

\* p, err := json.Marshal(post) closes buildBody; Notify returns (false, err)
\* on an error and goes on to SendWebhook otherwise
Marshalled(doc, mo) ==
  /\ body' = IF mo = "ok" THEN [doc |-> doc, err |-> "nil"] ELSE [doc |-> <<>>, err |-> "marshal"]
  /\ npc' = IF mo = "ok" THEN "send" ELSE "done"
  /\ result' = IF mo = "ok" THEN result ELSE [ok |-> FALSE, err |-> "marshal"]

\* the rest of buildBody, "post"
NotifyBuildPost ==
  /\ variant = "post"
  /\ npc = "images"
  /\ idx > Len(images)
  /\ \E mo \in {"ok", "marshalerr"} :
       Marshalled(PostDoc(title, message, imageContents,
                          JoinURLPath(externalURL, "/alerting/list")), mo)
  /\ UNCHANGED <<variant, settings, externalURL, alertStatus, images, idx, imageContents,
                 message, title, sends, uploads, failures>>
  /\ UNCHANGED <<tokenVars, cfgVars, helperVars>>

\* the rest of buildBody, "card"
NotifyBuildCard ==
  /\ variant = "card"
  /\ npc = "images"
  /\ idx > Len(images)
  /\ \E mo \in {"ok", "marshalerr"}, failAt \in 0..Len(settings.MentionUsers) :
       LET ruleURL == JoinURLPath(externalURL, "/alerting/list")
           link == IF Len(ruleURL) > 0 THEN Ptr([url |-> ruleURL]) ELSE NilPtr
           elements == CardMentions(CardContents(message, imageContents),
                                    settings.MentionUsers, failAt)
       IN  /\ Marshalled(CardDoc(settings.MessageType, title, alertStatus, link, elements), mo)
           /\ failures' = failures \cup (IF failAt # 0 THEN {"template"} ELSE {})
  /\ UNCHANGED <<variant, settings, externalURL, alertStatus, images, idx, imageContents,
                 message, title, sends, uploads>>
  /\ UNCHANGED <<tokenVars, cfgVars, helperVars>>

\* the rest of buildBody, "sdk": getUserIDs runs if there are mention users
NotifyBuildSDK ==
  /\ variant = "sdk"
  /\ npc = "images"
  /\ idx > Len(images)
  /\ \E mo \in {"ok", "marshalerr"}, lo \in LookupOutcomes(settings.MentionUsers) :
       LET ids == getUserIDs(settings.MentionUsers, lo)
           called == Len(settings.MentionUsers) > 0
           elements == SDKMentions(CardContents(message, imageContents),
                                   settings.MentionUsers, ids)
       IN  /\ userRet' = IF called THEN <<ids>> ELSE <<>>
           /\ userResp' = IF called /\ ids.lookups > 0 THEN <<lo>> ELSE <<>>
           /\ IF called /\ ids.panic
              THEN /\ npc' = "panic"
                   /\ failures' = failures \cup {"mention"}
                   /\ UNCHANGED <<body, result>>
              ELSE /\ Marshalled(CardDoc(settings.MessageType, title, alertStatus, NilPtr,
                                         elements), mo)
                   /\ failures' = failures \cup (IF called /\ ids.err THEN {"mention"} ELSE {})
  /\ UNCHANGED <<variant, settings, externalURL, alertStatus, images, idx, imageContents,
                 message, title, sends, uploads>>
  /\ UNCHANGED <<tokenVars, cfgVars>>
  /\ UNCHANGED <<revision, disableResolveMessage, lookupEmails, resolvedRet>>

\* fs.sender.SendWebhook(ctx, cmd) and the return of Notify
NotifySend ==
  /\ npc = "send"
  /\ \E so \in {"nil", "send"} :
       /\ sends' = Append(sends, so)
       /\ result' = IF so = "nil" THEN [ok |-> TRUE, err |-> "nil"] ELSE [ok |-> FALSE, err |-> so]
  /\ npc' = "done"
  /\ UNCHANGED <<variant, settings, externalURL, alertStatus, images, idx, imageContents,
                 message, title, body, uploads, failures>>
  /\ UNCHANGED <<tokenVars, cfgVars, helperVars>>

NotifyCallIdle ==
  /\ npc = "idle"
  /\ alertStatus = "firing"
  /\ images = <<>>
  /\ idx = 1
  /\ imageContents = <<>>
  /\ message = ""
  /\ title = ""
  /\ body = NoBody
  /\ result = NoResult
  /\ sends = <<>>
  /\ uploads = <<>>
  /\ failures = {}

NotifyIdle ==
  /\ variant = "post"
  /\ settings \in NotifierSettings("post")
  /\ externalURL = ""
  /\ NotifyCallIdle

NotifyInit ==
  /\ variant \in Variants
  /\ settings \in NotifierSettings(variant)
  /\ externalURL \in ExternalURLs(variant)
  /\ NotifyCallIdle

\* ------------------------------------------- SendResolved and getUserIDs
\* the four revisions of the receiver: feishu.go, the two of part_001, part_002
Revisions == {"feishu.go", "part_001/1", "part_001/2", "part_002"}

\* SendResolved(): "!fs.GetDisableResolveMessage()", and in the first
\* revision of part_001 "!!fs.GetDisableResolveMessage()"
SendResolved(rev, flag) == IF rev = "part_001/1" THEN ~(~flag) ELSE ~flag

\* the identifiers a mention list is written with
Identifiers == {"a@x", "b@x", "all"}

EmailLists == UNION {[1..k -> Identifiers] : k \in 0..MaxEmails}

\* the framework asks the Notifier whether resolved alerts are to be sent
CallSendResolved ==
  /\ resolvedRet = <<>>
  /\ resolvedRet' = <<SendResolved(revision, disableResolveMessage)>>
  /\ UNCHANGED <<revision, disableResolveMessage, lookupEmails, userResp, userRet>>
  /\ UNCHANGED <<tokenVars, cfgVars, notifyVars>>

\* fs.getUserIDs(emails), which only the revision of part_002 has
CallGetUserIDs ==
  /\ revision = "part_002"
  /\ userRet = <<>>
  /\ \E lo \in LookupOutcomes(lookupEmails) :
       LET ids == getUserIDs(lookupEmails, lo) IN
         /\ userRet' = <<ids>>
         /\ userResp' = IF ids.lookups > 0 THEN <<lo>> ELSE <<>>
  /\ UNCHANGED <<revision, disableResolveMessage, lookupEmails, resolvedRet>>
  /\ UNCHANGED <<tokenVars, cfgVars, notifyVars>>

HelperIdle ==
  /\ revision = "feishu.go"
  /\ disableResolveMessage = FALSE
  /\ lookupEmails = <<>>
  /\ userResp = <<>>
  /\ userRet = <<>>
  /\ resolvedRet = <<>>

HelperInit ==
  /\ revision \in Revisions
  /\ disableResolveMessage \in BOOLEAN
  /\ lookupEmails \in EmailLists
  /\ userResp = <<>>
  /\ userRet = <<>>
  /\ resolvedRet = <<>>

TokenInit ==
  /\ now = 0
  /\ cache = <<>>
  /\ authSeq = 0
  /\ pc = [c \in Callers |-> "idle"]
  /\ tenantInfo = [c \in Callers |-> NoTenant]
  /\ ret = [c \in Callers |-> [token |-> "", err |-> FALSE]]
  /\ authCalls = [c \in Callers |-> 0]
  /\ issued = {}
  /\ lastSet = ""

Init == TokenInit /\ ConfigIdle /\ NotifyIdle /\ HelperIdle

Next ==
  \/ \E c \in Callers : TokenGet(c)
  \/ \E c \in Callers : TokenPost(c)
  \/ \E c \in Callers : TokenSet(c)
  \/ \E c \in Callers : TokenReturn(c)
  \/ Tick

Spec == Init /\ [][Next]_vars

InitConfig == TokenInit /\ ConfigInit /\ NotifyIdle /\ HelperIdle

NextConfig == CallNewConfig \/ CallNewConfigPlain

SpecConfig == InitConfig /\ [][NextConfig]_vars

InitNotify == TokenInit /\ ConfigIdle /\ NotifyInit /\ HelperIdle

NextNotify ==
  \/ NotifyBegin
  \/ NotifyUploadRaw
  \/ NotifyUploadSDK
  \/ NotifyBuildPost
  \/ NotifyBuildCard
  \/ NotifyBuildSDK
  \/ NotifySend
  \/ NotifyTick

SpecNotify == InitNotify /\ [][NextNotify]_vars

InitHelpers == TokenInit /\ ConfigIdle /\ NotifyIdle /\ HelperInit

NextHelpers == CallSendResolved \/ CallGetUserIDs

SpecHelpers == InitHelpers /\ [][NextHelpers]_vars

\* ------------------------------------------------------------------ C1
\* C1: a getTenantAccessToken call that finds a cached token whose expiration
\* has not passed returns that token at once and sends nothing to the auth
\* endpoint; a call that finds the cache empty or expired sends exactly one
\* auth request, and the token of the parsed answer is stored with
\* expiration = now + expire seconds and returned.
C1_TokenCache ==
  [][\A c \in Callers :
       /\ (pc[c] = "idle" /\ pc'[c] # "idle") =>
            IF cache # <<>> /\ now <= cache[1].expiration
            THEN /\ pc'[c] = "done"
                 /\ ret'[c] = [token |-> cache[1].value, err |-> FALSE]
                 /\ authCalls'[c] = 0
                 /\ authSeq' = authSeq
                 /\ cache' = cache
            ELSE /\ pc'[c] = "post"
                 /\ authCalls'[c] = 0
       /\ (pc[c] = "post" /\ pc'[c] # "post") =>
            /\ authCalls'[c] = 1
            /\ authSeq' = authSeq + 1
       /\ (pc[c] = "set" /\ pc'[c] # "set") =>
            /\ pc'[c] = "done"
            /\ authCalls'[c] = 1
            /\ authSeq' = authSeq
            /\ cache' = <<[value |-> tenantInfo[c].AccessToken,
                           expiration |-> now + tenantInfo[c].Expire]>>
            /\ ret'[c] = [token |-> tenantInfo[c].AccessToken, err |-> FALSE]
    ]_vars

\* a cache hit on a token that was fetched after an earlier one had expired
C1_Witness ==
  \E c \in Callers :
    /\ pc[c] = "done" /\ authCalls[c] = 0 /\ ~ret[c].err
    /\ ret[c].token # ""
    /\ cache # <<>> /\ cache[1].value = ret[c].token
    /\ authSeq >= 2 /\ now >= 2

\* ------------------------------------------------------------------ C2
\* C2 (as claimed): when every caller has refreshed (no lock stops them) and
\* returned without error, each returned token is one the auth endpoint
\* issued in a successful answer - never an empty value - and the cache slot
\* holds the value of the last SetWithExpire.
C2_Claim ==
  (\A c \in Callers : pc[c] = "done" /\ authCalls[c] = 1 /\ ~ret[c].err) =>
     /\ \A c \in Callers : ret[c].token # "" /\ ret[c].token \in issued
     /\ cache # <<>> /\ cache[1].value = lastSet

\* ------------------------------------------------------------------ C3
\* C3 (as claimed): a call whose single auth request got no valid token
\* answer (transport error, unreadable or unparsable body, or a body without
\* a token) returns an error and no token, and never reaches SetWithExpire.
C3_Claim ==
  \A c \in Callers :
    /\ authCalls[c] <= 1
    /\ pc[c] = "set" => tenantInfo[c].AccessToken # ""
    /\ (pc[c] = "done" /\ authCalls[c] = 1 /\ tenantInfo[c].AccessToken = "") =>
         (ret[c].err /\ ret[c].token = "")

\* ------------------------------------------------------------------ C4
\* what the decrypt function of the call makes of credential k (the NewConfig
\* without a decrypt function reads the plaintext)
Decrypted(k) ==
  IF cfgBy = "decrypt" THEN decryptFn[k][Field(jsonData.doc, k)] ELSE Field(jsonData.doc, k)

\* C4: NewConfig returns an error and the zero Config whenever the URL, the
\* decrypted app ID or the decrypted app secret is empty; it returns without
\* error only when all three are non-empty.
C4_Validation ==
  cfgBy # "" =>
    LET anyEmpty == \/ Field(jsonData.doc, "url") = ""
                    \/ Decrypted("appId") = ""
                    \/ Decrypted("appSecret") = ""
    IN  /\ anyEmpty => (cfgRet.err # "nil" /\ cfgRet.settings = ZeroConfig)
        /\ (jsonData.valid /\ ~anyEmpty) => cfgRet.err = "nil"

\* all three fields are written in the settings and NewConfig still fails,
\* because the decrypt function turned a credential into ""
C4_Witness ==
  /\ cfgBy = "decrypt"
  /\ cfgRet.err = "missing"
  /\ jsonData.valid
  /\ Field(jsonData.doc, "url") # ""
  /\ Field(jsonData.doc, "appId") # ""
  /\ Field(jsonData.doc, "appSecret") # ""
  /\ Decrypted("appId") # ""
  /\ Decrypted("appSecret") = ""

\* ------------------------------------------------------------------ C5
\* C5 (as claimed): a Config returned without error has non-empty URL, AppID
\* and AppSecret, and AppID and AppSecret are the decrypted values.
C5_Claim ==
  (cfgBy # "" /\ cfgRet.err = "nil") =>
    /\ cfgRet.settings.URL # ""
    /\ cfgRet.settings.AppID # ""
    /\ cfgRet.settings.AppSecret # ""
    /\ cfgRet.settings.AppID = Decrypted("appId")
    /\ cfgRet.settings.AppSecret = Decrypted("appSecret")

\* ------------------------------------------------------------------ C6
\* C6 (as claimed): in an accepted Config an absent or empty title, message
\* or message format is replaced by its default (the default title, the
\* default body, "post"), and every field the input carries is unchanged.
C6_Claim ==
  (cfgBy # "" /\ cfgRet.err = "nil") =>
    LET in(k) == Field(jsonData.doc, k)
        out == cfgRet.settings
    IN  /\ out.Title = IF in("title") = "" THEN DefaultMessageTitleEmbed ELSE in("title")
        /\ out.Message = IF in("message") = "" THEN DefaultMessageEmbed ELSE in("message")
        /\ out.MessageType = IF in("msgType") = "" THEN "post" ELSE in("msgType")
        /\ out.URL = in("url")
        /\ out.AppID = in("appId")
        /\ out.AppSecret = in("appSecret")
        /\ out.MentionUsers = jsonData.mentionUsers

\* ------------------------------------------------------------------ C7
\* C7: SendWebhook is called at most once per Notify call and never before
\* buildBody has returned a body; when buildBody returned an error Notify
\* returns (false, that error) without a send; when the send returned an
\* error Notify returns (false, that error); when it returned nil, (true, nil).
C7_NotifyResult ==
  /\ Len(sends) <= 1
  /\ npc \in {"idle", "images"} => sends = <<>>
  /\ body.err # "nil" => (sends = <<>> /\ npc = "done")
  /\ npc = "done" =>
       IF body.err # "nil"
       THEN result = [ok |-> FALSE, err |-> body.err]
       ELSE /\ Len(sends) = 1
            /\ result = IF sends[1] = "nil" THEN [ok |-> TRUE, err |-> "nil"]
                        ELSE [ok |-> FALSE, err |-> sends[1]]

\* buildBody failed after two uploads: Notify is over, nothing was sent
C7_Witness ==
  /\ npc = "done"
  /\ body.err = "marshal"
  /\ sends = <<>>
  /\ result = [ok |-> FALSE, err |-> "marshal"]
  /\ Len(uploads) = 2

\* ------------------------------------------------------------------ C8
\* C8 (as claimed): a Notify call that is over without a fatal (encoding)
\* error has called SendWebhook exactly once, whatever non-fatal failures
\* happened, and has returned (true, nil) if that send succeeded.
C8_Claim ==
  (npc \in {"done", "panic"} /\ body.err = "nil") =>
    /\ Len(sends) = 1
    /\ sends[1] = "nil" => result = [ok |-> TRUE, err |-> "nil"]

\* ------------------------------------------------------------------ C9
\* the image keys a payload carries, in order
PayloadImageKeys(doc) ==
  IF variant = "post"
  THEN LET rows == SelectSeq(doc.content.post.zh_cn.content, LAMBDA r : r[1].tag = "img")
       IN  IF rows = <<>> THEN <<>>
           ELSE [i \in DOMAIN rows[1] |-> rows[1][i].image_key]
  ELSE LET els == SelectSeq(doc.card.elements,
                            LAMBDA e : "obj" \in DOMAIN e /\ e.obj.tag = "img_combination")
       IN  IF els = <<>> THEN <<>>
           ELSE [i \in DOMAIN els[1].obj.img_list |-> els[1].obj.img_list[i].img_key]

\* the keys the platform gave for the images it accepted, in iteration order
AcceptedKeys ==
  LET acc == SelectSeq(uploads, LAMBDA u : u.answer = "accepted")
  IN  [i \in DOMAIN acc |-> "key-" \o acc[i].path]

\* C9 (as claimed): the payload buildBody returns holds an image block for
\* exactly the images whose upload succeeded, in iteration order, and none
\* for the failed ones; an upload failure never makes buildBody fail.
C9_Claim ==
  /\ (npc \in {"send", "done"} /\ body.err = "nil") =>
       PayloadImageKeys(body.doc) = AcceptedKeys
  /\ body.err \in {"nil", "marshal"}

\* ----------------------------------------------------------------- C10
\* C10 (as claimed): uploadImage returns an error whenever the platform did
\* not accept the image (non-2xx status, or a body without an image key), a
\* returned handle is never empty, and no payload has an image block with an
\* empty key.
C10_Claim ==
  /\ \A i \in DOMAIN uploads :
       /\ uploads[i].answer # "accepted" => uploads[i].err
       /\ ~uploads[i].err => uploads[i].key # ""
  /\ (npc \in {"send", "done"} /\ body.err = "nil") =>
       \A i \in DOMAIN PayloadImageKeys(body.doc) : PayloadImageKeys(body.doc)[i] # ""

\* ----------------------------------------------------------------- C11
\* C11: for every identifier list that holds "all" at any position,
\* getUserIDs returns exactly <<"all">> without error and without a lookup
\* call, whatever the other entries are.
C11_AllShortCircuit ==
  (userRet # <<>> /\ Contains(lookupEmails, "all")) =>
    /\ userRet[1].userIds = <<"all">>
    /\ ~userRet[1].err
    /\ ~userRet[1].panic
    /\ userRet[1].lookups = 0
    /\ userResp = <<>>

\* "all" is the last of three identifiers
C11_Witness ==
  /\ userRet # <<>>
  /\ lookupEmails = <<"a@x", "b@x", "all">>
  /\ userRet[1].userIds = <<"all">>

\* ----------------------------------------------------------------- C12
\* C12 (as claimed): for every identifier list without "all", getUserIDs
\* issues one batched lookup and either fails or returns one user ID per
\* input identifier, position i holding the user ID of identifier i, also
\* when the answer lists the users in another order or leaves some out.
C12_Claim ==
  (userRet # <<>> /\ ~Contains(lookupEmails, "all")) =>
    /\ userRet[1].lookups = 1
    /\ \/ userRet[1].err
       \/ /\ ~userRet[1].panic
          /\ Len(userRet[1].userIds) = Len(lookupEmails)
          /\ \A i \in DOMAIN lookupEmails :
               userRet[1].userIds[i] = "ou_" \o lookupEmails[i]

\* ----------------------------------------------------------------- C13
\* C13 (as claimed): for the Notifier of every revision, SendResolved
\* returns the negation of the disable-resolve-message flag (TRUE exactly
\* when the flag is FALSE) and changes nothing else.
C13_Claim ==
  [][resolvedRet' # resolvedRet =>
       /\ resolvedRet' = <<~disableResolveMessage>>
       /\ UNCHANGED <<tokenVars, cfgVars, notifyVars>>
       /\ UNCHANGED <<revision, disableResolveMessage, lookupEmails, userResp, userRet>>
    ]_vars

\* ----------------------------------------------------------------- C14
\* the kind of each row of a post payload, in order
PostRowKinds(doc) ==
  LET rows == doc.content.post.zh_cn.content
  IN  [i \in DOMAIN rows |->
         IF Len(rows[i]) = 0 THEN "empty"
         ELSE IF rows[i][1].tag = "text" THEN "text"
         ELSE IF rows[i][1].tag = "img" THEN "image"
         ELSE IF rows[i][1].tag = "a" THEN "link"
         ELSE "mention"]

\* the kind of each element of a card payload, in order; an element that is
\* itself a list is "nested"
CardElementKinds(doc) ==
  LET els == doc.card.elements
  IN  [i \in DOMAIN els |->
         IF "arr" \in DOMAIN els[i] THEN "nested"
         ELSE IF els[i].obj.tag = "hr" THEN "divider"
         ELSE IF els[i].obj.tag = "img_combination" THEN "image"
         ELSE IF els[i].obj.tag = "markdown" /\ message # "" /\ els[i].obj.content = message
         THEN "text"
         ELSE "mention"]

\* the mention step produced at least one user ID
MentionsResolved ==
  CASE variant = "post" -> FALSE
    [] variant = "card" -> Len(settings.MentionUsers) > 0
    [] variant = "sdk" -> /\ userRet # <<>>
                          /\ ~userRet[1].err
                          /\ ~userRet[1].panic
                          /\ Len(userRet[1].userIds) > 0

Opt(cond, kind) == IF cond THEN <<kind>> ELSE <<>>

\* C14 (as claimed): the blocks of every payload are, in this order, the
\* text (message non-empty), the image block (an image was uploaded), the
\* deep link (external URL configured), the divider (card only, only after
\* prior content) and the mention block (mentions resolved), each present
\* exactly when its condition holds; a post payload holds each as a row, a
\* card payload as one flat element list (its link is the card's link).
\* Stated here without two converses: a link without a configured external
\* URL and a missing divider are not counted against the claim.
C14_Claim ==
  (npc \in {"send", "done"} /\ body.err = "nil") =>
    LET content == Opt(message # "", "text") \o Opt(imageContents # <<>>, "image")
        linked == externalURL # ""
        mention == Opt(MentionsResolved, "mention")
    IN  IF variant = "post"
        THEN \/ PostRowKinds(body.doc) = content \o <<"link">> \o mention
             \/ ~linked /\ PostRowKinds(body.doc) = content \o mention
        ELSE /\ \/ CardElementKinds(body.doc) = content \o mention
                \/ /\ content # <<>>
                   /\ CardElementKinds(body.doc) = content \o <<"divider">> \o mention
             /\ linked => body.doc.card.card_link # NilPtr

\* ----------------------------------------------------------------- C15
\* the card payload has a block of mentions (of any length)
HasMentionBlock(doc) ==
  \E i \in DOMAIN doc.card.elements : CardElementKinds(doc)[i] \in {"mention", "nested"}

\* C15 (as claimed): with a non-empty mention list, the card payload of the
\* SDK revision has a mention block if and only if getUserIDs succeeded and
\* returned at least one user ID; when it failed or returned none there is
\* no mention block, and buildBody still returns its payload.
C15_Claim ==
  (variant = "sdk" /\ Len(settings.MentionUsers) > 0) =>
    /\ npc # "panic"
    /\ (npc \in {"send", "done"} /\ body.err = "nil") =>
         (HasMentionBlock(body.doc) <=> MentionsResolved)
    /\ body.err \in {"nil", "marshal"}

\* ----------------------------------------------------------------- C16
\* the cache holds a token that was issued for the credentials of a
\* notifier other than c
ForeignToken(c) ==
  /\ cache # <<>>
  /\ \E d \in Callers \ {c} : cache[1].value \in IssuedTo(AppIDOf(d))

\* C16: the process holds one cached token, whatever the app ID: when the
\* cache holds a token fetched with another notifier's credentials,
\* getTenantAccessToken of this notifier returns that token without an auth
\* request of its own as long as the token has not expired, and asks the
\* auth endpoint itself once it has.
C16_SharedToken ==
  [][/\ Len(cache') <= 1
     /\ \A c \in Callers :
          (pc[c] = "idle" /\ pc'[c] # "idle" /\ ForeignToken(c)) =>
            IF now <= cache[1].expiration
            THEN /\ pc'[c] = "done"
                 /\ ret'[c] = [token |-> cache[1].value, err |-> FALSE]
                 /\ authCalls'[c] = 0
                 /\ authSeq' = authSeq
                 /\ cache' = cache
            ELSE /\ pc'[c] = "post"
                 /\ cache' = <<>>
    ]_vars

\* a notifier has returned, without an auth request, the token that the
\* other notifier's credentials were issued
C16_Witness ==
  \E c \in Callers :
    /\ pc[c] = "done" /\ authCalls[c] = 0 /\ ~ret[c].err
    /\ \E d \in Callers \ {c} : ret[c].token \in IssuedTo(AppIDOf(d))
    /\ cache # <<>> /\ cache[1].value = ret[c].token

\* ----------------------------------------------------------------- C17
\* C17 (as claimed): in every card payload a divider ("hr") is never the
\* last element: it is immediately followed by a block of mentions,
\* whatever the outcome of the mention resolution.
C17_Claim ==
  (variant \in {"card", "sdk"} /\ npc \in {"send", "done"} /\ body.err = "nil") =>
    LET kinds == CardElementKinds(body.doc)
    IN  \A i \in DOMAIN kinds :
          kinds[i] = "divider" =>
            /\ i < Len(kinds)
            /\ kinds[i + 1] \in {"mention", "nested"}

====
